---- MODULE Spec2Model ----
(***************************************************************************)
(* Model of the nyarr crate of lf-/gridlock: the virtual filesystem        *)
(* (FileName, Directory, FsObject), the tar decoder tar_to_fsobject and    *)
(* the NAR serialiser.  Bytes are naturals 0..255, byte strings are        *)
(* sequences of bytes, a BTreeMap is the sequence of its (key, value)      *)
(* pairs in the order the map iterates them.                               *)
(***************************************************************************)
EXTENDS Integers, Sequences, FiniteSets, TLC

VARIABLES
    strip_root,  \* tar_to_fsobject's strip_root argument
    archive,     \* the tar members the decoder has consumed so far
    tree,        \* tar_to_fsobject's local `tree`
    pc,          \* position in tar_to_nar: decoding, decoded, failed, serialised
    last,        \* what the last loop iteration of tar_to_fsobject did
    out,         \* the bytes the sink of tar_to_nar has received
    hasher,      \* the bytes a NarHasher sink has fed to its Sha256 state
    ret,         \* what tar_to_nar returned, once it has returned
    buf,         \* byte-string harness: the input slice
    res,         \* byte-string harness: result of the function applied to buf
    dir,         \* insert harness: a Directory that insert is called on
    calls,       \* insert harness: the insert calls made on dir, in order
    sink         \* sink harness: a writer that can fail, given to serialise_toplevel

vars == <<strip_root, archive, tree, pc, last, out, hasher, ret, buf, res, dir, calls,
          sink>>

(***************************************************************************)
(* Bounds of the model.                                                    *)
(***************************************************************************)
MaxMembers == 3
MaxBufLen == 9
MaxRawLen == 4
MaxInserts == 3
MaxFaultAt == 110

(***************************************************************************)
(* Bytes.                                                                  *)
(***************************************************************************)
Slash == 47
Dot == 46
ExecBits == 73

RECURSIVE BitAnd(_, _)
BitAnd(a, b) ==
    IF a = 0 \/ b = 0 THEN 0
    ELSE (IF a % 2 = 1 /\ b % 2 = 1 THEN 1 ELSE 0) + 2 * BitAnd(a \div 2, b \div 2)

RECURSIVE LeBytes(_, _)
LeBytes(n, k) == IF k = 0 THEN <<>> ELSE <<n % 256>> \o LeBytes(n \div 256, k - 1)

\* u64::to_le_bytes: the 8 bytes of n, least significant first
to_le_bytes(n) == LeBytes(n, 8)

Zeros(n) == [i \in 1..n |-> 0]

\* the bytes a sink holds after the write_all calls ws
RECURSIVE FlattenRange(_, _, _)
FlattenRange(ws, lo, hi) ==
    IF lo > hi THEN <<>>
    ELSE IF lo = hi THEN ws[lo]
    ELSE LET mid == (lo + hi) \div 2
         IN  FlattenRange(ws, lo, mid) \o FlattenRange(ws, mid + 1, hi)
Flatten(ws) == FlattenRange(ws, 1, Len(ws))

\* Ord for Vec<u8>: lexicographic, a proper prefix is smaller
RECURSIVE LexLess(_, _)
LexLess(a, b) ==
    IF b = <<>> THEN FALSE
    ELSE IF a = <<>> THEN TRUE
    ELSE IF Head(a) # Head(b) THEN Head(a) < Head(b)
    ELSE LexLess(Tail(a), Tail(b))

(***************************************************************************)
(* FileName (lib.rs 38-82).  A FileName is the sequence of its components. *)
(***************************************************************************)
\* slice::split(|&c| c == b'/')
RECURSIVE split(_)
split(value) ==
    IF \A i \in 1..Len(value) : value[i] # Slash THEN <<value>>
    ELSE LET i == CHOOSE k \in 1..Len(value) :
                      value[k] = Slash /\ \A j \in 1..(k - 1) : value[j] # Slash
         IN  <<SubSeq(value, 1, i - 1)>> \o split(SubSeq(value, i + 1, Len(value)))

\* a filter that drops only the empty components
KeepAll(e) == e # <<>>
\* a filter that drops only the "." components
KeepNonDot(e) == e # <<Dot>>
\* the filter closure of try_from
KeepComponent(e) == e # <<>> /\ e # <<Dot>>

try_from(value) ==
    LET bits == SelectSeq(split(value), KeepComponent)
    IN  IF Len(bits) = 0 THEN [ok |-> FALSE, err |-> "empty file name"]
        ELSE [ok |-> TRUE, name |-> bits]

\* variants of drop_first: a threshold one higher, a threshold one lower, and
\* the other end dropped
DropShort(name) ==
    IF Len(name) <= 2 THEN [some |-> FALSE]
    ELSE [some |-> TRUE, name |-> Tail(name)]
DropToEmpty(name) ==
    IF Len(name) < 1 THEN [some |-> FALSE]
    ELSE [some |-> TRUE, name |-> Tail(name)]
DropLast(name) ==
    IF Len(name) <= 1 THEN [some |-> FALSE]
    ELSE [some |-> TRUE, name |-> SubSeq(name, 1, Len(name) - 1)]
drop_first(name) ==
    IF Len(name) <= 1 THEN [some |-> FALSE]
    ELSE [some |-> TRUE, name |-> Tail(name)]

RECURSIVE to_path(_)
to_path(name) ==
    IF name = <<>> THEN <<>>
    ELSE IF Len(name) = 1 THEN name[1]
    ELSE name[1] \o <<Slash>> \o to_path(Tail(name))

(***************************************************************************)
(* FsObject and Directory (lib.rs 97-136).                                 *)
(***************************************************************************)
File(exec, content) == [tag |-> "File", exec |-> exec, content |-> content]
Directory(entries) == [tag |-> "Directory", entries |-> entries]
Symlink(name) == [tag |-> "Symlink", target |-> name]

DirectoryDefault == <<>>

Keys(m) == {m[i][1] : i \in 1..Len(m)}
Get(m, k) == LET i == CHOOSE j \in 1..Len(m) : m[j][1] = k IN m[i][2]

\* a map that keeps insertion order, as a Vec of pairs would
BTreeAppend(m, k, v) ==
    SelectSeq(m, LAMBDA e : e[1] # k) \o <<<<k, v>>>>
\* BTreeMap::insert: the value of an existing key is replaced, a new key is
\* placed at its position in key order
BTreeInsert(m, k, v) ==
    SelectSeq(m, LAMBDA e : LexLess(e[1], k)) \o <<<<k, v>>>>
        \o SelectSeq(m, LAMBDA e : LexLess(k, e[1]))

\* an entry lookup that replaces a non-directory by a fresh directory
OrReplace(m, top) ==
    IF top \in Keys(m) /\ Get(m, top).tag = "Directory" THEN m
    ELSE BTreeInsert(m, top, Directory(DirectoryDefault))
\* entry(top).or_insert_with(|| Directory::default())
or_insert_with(m, top) ==
    IF top \in Keys(m) THEN m ELSE BTreeInsert(m, top, Directory(DirectoryDefault))

RECURSIVE insert(_, _, _)
\* an insert that, meeting a non-directory, puts a fresh directory in its
\* place before it reports the error
InsertClobber(self, path, obj) ==
    IF Len(path) = 1 THEN
        [r |-> "Ok", dir |-> BTreeInsert(self, path[1], obj)]
    ELSE IF Len(path) >= 2 THEN
        LET top == path[1]
            rest == Tail(path)
        IN  IF top = <<>> THEN [r |-> "panic", dir |-> self]
            ELSE LET m == or_insert_with(self, top)
                     fso == Get(m, top)
                 IN  IF fso.tag = "Directory" THEN
                         LET inner == insert(fso.entries, rest, obj)
                         IN  [r |-> inner.r,
                              dir |-> BTreeInsert(m, top, Directory(inner.dir))]
                     ELSE [r |-> "Err",
                           dir |-> BTreeInsert(m, top, Directory(DirectoryDefault))]
    ELSE [r |-> "panic", dir |-> self]
\* Directory::insert.  The result carries the map as the call leaves it (the
\* call mutates in place, also when it fails).
insert(self, path, obj) ==
    IF Len(path) = 1 THEN
        [r |-> "Ok", dir |-> BTreeInsert(self, path[1], obj)]
    ELSE IF Len(path) >= 2 THEN
        LET top == path[1]
            rest == Tail(path)
        IN  IF top = <<>> THEN [r |-> "panic", dir |-> self]
            ELSE LET m == or_insert_with(self, top)
                     fso == Get(m, top)
                 IN  IF fso.tag = "Directory" THEN
                         LET inner == insert(fso.entries, rest, obj)
                         IN  [r |-> inner.r,
                              dir |-> BTreeInsert(m, top, Directory(inner.dir))]
                     ELSE [r |-> "Err", dir |-> m]
    ELSE [r |-> "panic", dir |-> self]

InsertError == "attempt to insert into a non directory"

(***************************************************************************)
(* NAR serialiser (lib.rs 157-276).  Each operator yields the sequence of  *)
(* write_all calls it makes, one buffer per call.                          *)
(***************************************************************************)
B_magic == <<110, 105, 120, 45, 97, 114, 99, 104, 105, 118, 101, 45, 49>>
B_open == <<40>>
B_close == <<41>>
B_type == <<116, 121, 112, 101>>
B_regular == <<114, 101, 103, 117, 108, 97, 114>>
B_executable == <<101, 120, 101, 99, 117, 116, 97, 98, 108, 101>>
B_contents == <<99, 111, 110, 116, 101, 110, 116, 115>>
B_directory == <<100, 105, 114, 101, 99, 116, 111, 114, 121>>
B_entry == <<101, 110, 116, 114, 121>>
B_name == <<110, 97, 109, 101>>
B_node == <<110, 111, 100, 101>>
B_symlink == <<115, 121, 109, 108, 105, 110, 107>>
B_target == <<116, 97, 114, 103, 101, 116>>

\* padding without the aligned case
PaddingAlways(len) == 8 - BitAnd(len, 7)
\* let padding_num = if len & 0x7 == 0 { 0 } else { 8 - (len & 0x7) }
padding_num(len) == IF BitAnd(len, 7) = 0 THEN 0 ELSE 8 - BitAnd(len, 7)

\* impl Serializable for &[u8] (and, with write_into for the middle write,
\* for a ByteStream): three write_all calls
serialise_just(s) ==
    LET len == Len(s)
    IN  <<to_le_bytes(len), s, SubSeq(Zeros(8), 1, padding_num(len))>>

str(s) == serialise_just(s)
type_(s) == serialise_just(B_type) \o serialise_just(s)

RECURSIVE serialise_one(_), serialise_wrapped(_), serialise_entries(_)
serialise_wrapped(fso) == str(B_open) \o serialise_one(fso) \o str(B_close)

\* a loop that writes the child's body without its parentheses
EntriesUnwrapped(m) ==
    IF m = <<>> THEN <<>>
    ELSE str(B_entry) \o str(B_open) \o str(B_name) \o str(m[1][1]) \o str(B_node)
           \o serialise_one(m[1][2]) \o str(B_close)
           \o serialise_entries(Tail(m))
\* the for loop over &entries.0, in the map's iteration order
serialise_entries(m) ==
    IF m = <<>> THEN <<>>
    ELSE str(B_entry) \o str(B_open) \o str(B_name) \o str(m[1][1]) \o str(B_node)
           \o serialise_wrapped(m[1][2]) \o str(B_close)
           \o serialise_entries(Tail(m))

serialise_one(fso) ==
    IF fso.tag = "File" THEN
        type_(B_regular)
          \o (IF fso.exec = "IsExecutable" THEN str(B_executable) ELSE <<>>)
          \o str(B_contents)
          \o serialise_just(fso.content)
    ELSE IF fso.tag = "Directory" THEN
        type_(B_directory) \o serialise_entries(fso.entries)
    ELSE
        type_(B_symlink) \o str(B_target) \o serialise_just(to_path(fso.target))

\* a top level that writes the object's body without the parentheses
ToplevelBare(fso) == str(B_magic) \o serialise_one(fso)
serialise_toplevel(fso) == str(B_magic) \o serialise_wrapped(fso)

(***************************************************************************)
(* NarHasher (hash.rs 7-33).  The Sha256 state is the sequence of the      *)
(* bytes update has been given.                                            *)
(***************************************************************************)
NarHasher_new == <<>>

\* a write that consumes the buffer and reports no byte written
WriteReportsZero(h, b) == [r |-> "Ok", n |-> 0, state |-> h \o b]
\* impl Write for NarHasher, write: self.0.update(buf); Ok(buf.len())
NarHasher_write(h, b) == [r |-> "Ok", n |-> Len(b), state |-> h \o b]

\* impl Write for NarHasher, flush
NarHasher_flush(h) == [r |-> "Ok", state |-> h]

\* Write::write_all over NarHasher::write: write until the buffer is empty,
\* a write of zero bytes is the error WriteZero
RECURSIVE write_all(_, _)
write_all(h, b) ==
    IF b = <<>> THEN [r |-> "Ok", state |-> h]
    ELSE LET w == NarHasher_write(h, b)
         IN  IF w.r # "Ok" THEN [r |-> "Err", err |-> "io error", state |-> w.state]
             ELSE IF w.n = 0 THEN
                 [r |-> "Err", err |-> "failed to write whole buffer", state |-> w.state]
             ELSE write_all(w.state, SubSeq(b, w.n + 1, Len(b)))

\* the write_all calls ws[lo..hi] made in order on the hasher, each followed
\* by `?`: the first error ends the run
RECURSIVE hash_writes(_, _, _, _)
hash_writes(ws, lo, hi, h) ==
    IF lo > hi THEN [r |-> "Ok", state |-> h]
    ELSE IF lo = hi THEN write_all(h, ws[lo])
    ELSE LET mid == (lo + hi) \div 2
             left == hash_writes(ws, lo, mid, h)
         IN  IF left.r # "Ok" THEN left ELSE hash_writes(ws, mid + 1, hi, left.state)

\* NarHasher::digest: "sha256-" followed by the base64 of the digest of the
\* bytes the state was given
digest(h) == [prefix |-> "sha256-", of |-> h]

(***************************************************************************)
(* Tar members as the tar crate presents them to tar_to_fsobject           *)
(* (tar.rs 35-64): the iterator item (Ok or Err), header().entry_type(),   *)
(* path_bytes(), header().mode(), read_to_end and link_name_bytes().       *)
(***************************************************************************)
Member(etype, path, mode, content, link) ==
    [hdr |-> "ok", etype |-> etype, path |-> path, mode |-> mode, mode_ok |-> TRUE,
     content |-> content, read_ok |-> TRUE, link |-> link]

NoLink == [some |-> FALSE]
Link(bytes) == [some |-> TRUE, bytes |-> bytes]
IoFault == "io error"

P_pkg == <<112, 107, 103, 45, 49, 46, 48>>
P_README == <<82, 69, 65, 68, 77, 69>>
P_src == <<115, 114, 99>>
P_main_c == <<109, 97, 105, 110, 46, 99>>
P_dire == <<100, 105, 114, 101>>
C_aaa == <<97, 97, 97, 10>>

TarFile(path, mode, content) == Member("file", path, mode, content, NoLink)
TarDir(path) == Member("dir", path, 493, <<>>, NoLink)
TarSymlink(path, link) == Member("symlink", path, 511, <<>>, link)

\* pkg-1.0/README, pkg-1.0/src/main.c, pkg-1.0/
M_readme == TarFile(P_pkg \o <<Slash>> \o P_README, 420, <<104, 105>>)
M_main_c == TarFile(P_pkg \o <<Slash>> \o P_src \o <<Slash>> \o P_main_c, 420, <<>>)
M_pkgdir == TarDir(P_pkg \o <<Slash>>)
\* the members of testdata/test1.tar: dire/, f, f2 -> f
M_dire == TarDir(P_dire)
M_f == TarFile(<<102>>, 420, C_aaa)
M_f2 == TarSymlink(<<102, 50>>, Link(<<102>>))

Members ==
    { M_readme, M_main_c, M_pkgdir, M_dire, M_f, M_f2,
      TarFile(<<97>>, 493, C_aaa),                                  \* a, 0755
      TarFile(<<Dot, Slash, 97, Slash, 98>>, 8, <<1>>),             \* ./a/b, 0010
      TarDir(<<Dot, Slash>>),                                       \* ./
      TarSymlink(<<97, Slash, 98, Slash, 108>>,                     \* a/b/l -> /a/./b//c/
                 Link(<<Slash, 97, Slash, Dot, Slash, 98, Slash, Slash, 99, Slash>>)),
      TarSymlink(<<115>>, Link(<<Dot>>)),                           \* s -> .
      TarSymlink(<<110>>, NoLink),                                  \* n, no link name
      Member("other", <<104>>, 420, <<>>, Link(<<102>>)),           \* h, a hard link
      [TarFile(<<114>>, 420, <<>>) EXCEPT !.read_ok = FALSE],       \* read_to_end fails
      [TarFile(<<109>>, 420, <<>>) EXCEPT !.mode_ok = FALSE],       \* mode() fails
      [TarFile(<<>>, 0, <<>>) EXCEPT !.hdr = "err"] }               \* the entry is Err

(***************************************************************************)
(* tar_to_fsobject (tar.rs 28-85).                                         *)
(***************************************************************************)
Fail(outcome, err, tr) ==
    [outcome |-> outcome, err |-> err, tree |-> tr]
Skip(outcome, tr) ==
    [outcome |-> outcome, tree |-> tr]

\* tar.rs 39-62: the FsObject of a member
build_obj(m) ==
    IF m.etype = "dir" THEN [kind |-> "obj", obj |-> Directory(DirectoryDefault)]
    ELSE IF m.etype = "file" THEN
        IF ~m.read_ok \/ ~m.mode_ok THEN
            [kind |-> "err", outcome |-> "err_io", err |-> IoFault]
        ELSE [kind |-> "obj",
              obj |-> File(IF BitAnd(m.mode, ExecBits) # 0
                           THEN "IsExecutable" ELSE "NotExecutable", m.content)]
    ELSE IF m.etype = "symlink" THEN
        IF ~m.link.some THEN
            [kind |-> "err", outcome |-> "err_link_missing", err |-> "empty link name"]
        ELSE LET name == try_from(m.link.bytes)
             IN  IF name.ok THEN [kind |-> "obj", obj |-> Symlink(name.name)]
                 ELSE [kind |-> "err", outcome |-> "err_link_parse", err |-> name.err]
    ELSE [kind |-> "skip"]

\* tar.rs 64-81: parse the member path, strip the root, insert
place(tr, m, obj, strip) ==
    LET name == try_from(m.path)
    IN  IF ~name.ok THEN Skip("skip_path", tr)
        ELSE LET stripped == IF strip = "StripRoot" THEN drop_first(name.name)
                             ELSE [some |-> TRUE, name |-> name.name]
             IN  IF ~stripped.some THEN Skip("skip_strip", tr)
                 ELSE LET ins == insert(tr, stripped.name, obj)
                      IN  [outcome |-> CASE ins.r = "Ok" -> "inserted"
                                         [] ins.r = "Err" -> "err_insert"
                                         [] OTHER -> "panic",
                           err |-> IF ins.r = "Err" THEN InsertError ELSE "",
                           tree |-> ins.dir,
                           ipath |-> stripped.name,
                           obj |-> obj]

\* one iteration of the for loop over the archive's entries
loop_body(tr, m, strip) ==
    IF m.hdr = "err" THEN Fail("err_io", IoFault, tr)
    ELSE LET b == build_obj(m)
         IN  IF b.kind = "err" THEN Fail(b.outcome, b.err, tr)
             ELSE IF b.kind = "skip" THEN Skip("skip_type", tr)
             ELSE place(tr, m, b.obj, strip)

\* a loop that goes on to the next member after a failed insert
FatalButInsert == {"err_io", "err_link_missing", "err_link_parse", "panic"}
\* the outcomes that leave the loop: every `?` of the body, and the panic
Fatal == {"err_io", "err_link_missing", "err_link_parse", "err_insert", "panic"}

\* the for loop run over the members ms, starting from the tree tr
RECURSIVE run_loop(_, _, _)
run_loop(tr, ms, strip) ==
    IF ms = <<>> THEN [r |-> "Ok", tree |-> tr]
    ELSE LET s == loop_body(tr, Head(ms), strip)
         IN  IF s.outcome \in Fatal THEN [r |-> "Err", err |-> s.err]
             ELSE run_loop(s.tree, Tail(ms), strip)

\* a result that is the sole entry's object when the tree has one entry
TarUnwrapSingle(ms, strip) ==
    LET l == run_loop(DirectoryDefault, ms, strip)
    IN  IF l.r = "Ok"
        THEN [r |-> "Ok",
              fso |-> IF Len(l.tree) = 1 THEN l.tree[1][2] ELSE Directory(l.tree)]
        ELSE l
\* tar_to_fsobject as a function of the archive's members
tar_to_fsobject(ms, strip) ==
    LET l == run_loop(DirectoryDefault, ms, strip)
    IN  IF l.r = "Ok" THEN [r |-> "Ok", fso |-> Directory(l.tree)] ELSE l

(***************************************************************************)
(* State machine of tar_to_nar (tar.rs 87-96).                             *)
(***************************************************************************)
Init ==
    /\ strip_root \in {"StripRoot", "DontStripRoot"}
    /\ archive = <<>>
    /\ tree = <<>>
    /\ pc = "decoding"
    /\ last = [outcome |-> "none"]
    /\ out = <<>>
    /\ hasher = NarHasher_new
    /\ ret = [r |-> "none"]
    /\ buf = <<>>
    /\ res = [fn |-> "none"]
    /\ dir = DirectoryDefault
    /\ calls = <<>>
    /\ sink = [kind |-> "none"]

\* the loop takes the next member of the archive
ReadMember(m) ==
    /\ pc = "decoding"
    /\ Len(archive) < MaxMembers
    /\ LET s == loop_body(tree, m, strip_root)
       IN  /\ last' = [s EXCEPT !.tree = tree]
           /\ tree' = s.tree
           /\ pc' = IF s.outcome \in Fatal THEN "failed" ELSE "decoding"
           /\ ret' = IF s.outcome \in Fatal THEN [r |-> "Err", err |-> s.err] ELSE ret
    /\ archive' = Append(archive, m)
    /\ UNCHANGED <<strip_root, out, hasher, buf, res>>
    /\ UNCHANGED <<dir, calls, sink>>

\* the archive has no more members: Ok(FsObject::Directory(tree))
EndOfArchive ==
    /\ pc = "decoding"
    /\ pc' = "decoded"
    /\ UNCHANGED <<strip_root, archive, tree, last, out, hasher, ret, buf, res>>
    /\ UNCHANGED <<dir, calls, sink>>

\* fso.serialise_toplevel(&mut into)
Serialise ==
    /\ pc = "decoded"
    /\ out' = out \o Flatten(serialise_toplevel(Directory(tree)))
    /\ pc' = "serialised"
    /\ ret' = [r |-> "Ok"]
    /\ UNCHANGED <<strip_root, archive, tree, last, hasher, buf, res>>
    /\ UNCHANGED <<dir, calls, sink>>

\* fso.serialise_toplevel(&mut into) with a NarHasher as the sink
SerialiseIntoHasher ==
    /\ pc = "decoded"
    /\ LET ws == serialise_toplevel(Directory(tree))
           h == hash_writes(ws, 1, Len(ws), hasher)
       IN  /\ hasher' = h.state
           /\ ret' = IF h.r = "Ok" THEN [r |-> "Ok"] ELSE [r |-> "Err", err |-> h.err]
    /\ pc' = "hashed"
    /\ UNCHANGED <<strip_root, archive, tree, last, out, buf, res>>
    /\ UNCHANGED <<dir, calls, sink>>

Next ==
    \/ \E m \in Members : ReadMember(m)
    \/ EndOfArchive
    \/ Serialise
    \/ SerialiseIntoHasher

Spec == Init /\ [][Next]_vars

(***************************************************************************)
(* Harness applying the byte-string functions to every slice over a small  *)
(* alphabet: serialise_just of &[u8] and FileName::try_from.               *)
(***************************************************************************)
Alphabet == {Slash, Dot, 97}

TypeByte(b) ==
    /\ Len(buf) < MaxBufLen
    /\ buf' = Append(buf, b)
    /\ res' = [fn |-> "none"]
    /\ UNCHANGED <<strip_root, archive, tree, pc, last, out, hasher, ret>>
    /\ UNCHANGED <<dir, calls, sink>>

ApplySerialiseJust ==
    /\ res' = [fn |-> "serialise_just", w |-> Flatten(serialise_just(buf))]
    /\ UNCHANGED <<strip_root, archive, tree, pc, last, out, hasher, ret, buf>>
    /\ UNCHANGED <<dir, calls, sink>>

ApplyTryFrom ==
    /\ res' = [fn |-> "try_from", r |-> try_from(buf)]
    /\ UNCHANGED <<strip_root, archive, tree, pc, last, out, hasher, ret, buf>>
    /\ UNCHANGED <<dir, calls, sink>>

NextBytes ==
    \/ \E b \in Alphabet : TypeByte(b)
    \/ ApplySerialiseJust
    \/ ApplyTryFrom

SpecBytes == Init /\ [][NextBytes]_vars

(***************************************************************************)
(* Harness calling Directory::insert (lib.rs 199-223) directly, as a user  *)
(* of the crate can: a sequence of calls on one Directory, each with a     *)
(* path and an object from a small set.                                    *)
(***************************************************************************)
InsPaths ==
    { <<<<97>>>>, <<<<98>>>>, <<<<97>>, <<97>>>>, <<<<97>>, <<98>>>>,
      <<<<98>>, <<97>>>>, <<<<97>>, <<98>>, <<97>>>> }
InsObjects ==
    { File("NotExecutable", <<1>>), Symlink(<<<<97>>>>), Directory(DirectoryDefault) }

\* dir.insert(&p, o); the Result is kept with the call
DirInsert(p, o) ==
    /\ Len(calls) < MaxInserts
    /\ LET i == insert(dir, p, o)
       IN  /\ dir' = i.dir
           /\ calls' = Append(calls, [path |-> p, obj |-> o, pre |-> dir, r |-> i.r])
    /\ UNCHANGED <<strip_root, archive, tree, pc, last, out, hasher, ret, buf, res, sink>>

NextInsert == \E p \in InsPaths, o \in InsObjects : DirInsert(p, o)

SpecInsert == Init /\ [][NextInsert]_vars

(***************************************************************************)
(* tar_to_nar with a sink that can fail (tar.rs 89, `into: impl Write`).   *)
(* The sink takes at most `chunk` bytes per write call and its write call  *)
(* number `at` returns an error (at = 0: none does); it counts the write   *)
(* calls it gets and keeps the bytes it accepted.                          *)
(***************************************************************************)
Min(a, b) == IF a < b THEN a ELSE b

NewSink(at, chunk) ==
    [kind |-> "faulty", bytes |-> <<>>, calls |-> 0, at |-> at, chunk |-> chunk]

\* Write::write of the sink
sink_write(s, b) ==
    IF s.calls + 1 = s.at
    THEN [r |-> "Err", n |-> 0, state |-> [s EXCEPT !.calls = @ + 1]]
    ELSE LET n == Min(Len(b), s.chunk)
         IN  [r |-> "Ok", n |-> n,
              state |-> [s EXCEPT !.calls = @ + 1, !.bytes = @ \o SubSeq(b, 1, n)]]

\* Write::write_all over the sink's write: write until the buffer is empty,
\* an error ends it
RECURSIVE sink_write_all(_, _)
sink_write_all(s, b) ==
    IF b = <<>> THEN [r |-> "Ok", state |-> s]
    ELSE LET w == sink_write(s, b)
         IN  IF w.r # "Ok" THEN [r |-> "Err", err |-> IoFault, state |-> w.state]
             ELSE IF w.n = 0 THEN
                 [r |-> "Err", err |-> "failed to write whole buffer", state |-> w.state]
             ELSE sink_write_all(w.state, SubSeq(b, w.n + 1, Len(b)))

RECURSIVE sink_writes(_, _, _, _)
\* a run of write_all calls that goes on after a failed one
SinkWritesIgnoring(ws, lo, hi, s) ==
    IF lo > hi THEN [r |-> "Ok", state |-> s]
    ELSE IF lo = hi THEN sink_write_all(s, ws[lo])
    ELSE LET mid == (lo + hi) \div 2
             left == sink_writes(ws, lo, mid, s)
             right == sink_writes(ws, mid + 1, hi, left.state)
         IN  IF left.r # "Ok" THEN [left EXCEPT !.state = right.state] ELSE right
\* the write_all calls ws[lo..hi] made in order on the sink, each followed by
\* `?`: the first error ends the run
sink_writes(ws, lo, hi, s) ==
    IF lo > hi THEN [r |-> "Ok", state |-> s]
    ELSE IF lo = hi THEN sink_write_all(s, ws[lo])
    ELSE LET mid == (lo + hi) \div 2
             left == sink_writes(ws, lo, mid, s)
         IN  IF left.r # "Ok" THEN left ELSE sink_writes(ws, mid + 1, hi, left.state)

SinkMembers == {M_f, M_f2, M_main_c}
SinkChunks == {3, 64}

\* fso.serialise_toplevel(&mut into)?; Ok(()) with the sink as `into`
SerialiseIntoSink(at, chunk) ==
    /\ pc = "decoded"
    /\ LET ws == serialise_toplevel(Directory(tree))
           w == sink_writes(ws, 1, Len(ws), NewSink(at, chunk))
       IN  /\ sink' = w.state
           /\ ret' = IF w.r = "Ok" THEN [r |-> "Ok"] ELSE [r |-> "Err", err |-> w.err]
    /\ pc' = "sunk"
    /\ UNCHANGED <<strip_root, archive, tree, last, out, hasher, buf, res, dir, calls>>

NextSink ==
    \/ \E m \in SinkMembers : ReadMember(m)
    \/ EndOfArchive
    \/ \E at \in 0..MaxFaultAt, chunk \in SinkChunks : SerialiseIntoSink(at, chunk)

SpecSink == Init /\ [][NextSink]_vars

(***************************************************************************)
(* Properties of the byte-string functions, under SpecBytes.               *)
(***************************************************************************)

\* C1: for every byte string s, str(s, sink) writes the length of s as 8
\* little-endian bytes, then s, then zero bytes: 8 + len(s) + pad bytes in
\* all, pad = (8 - len(s) mod 8) mod 8, a multiple of 8 ("" gives 8 zero
\* bytes, a 2-byte input 6 pad bytes, an 8-byte input none).
C1_StrLayout ==
    res.fn = "serialise_just" =>
        LET w == res.w
            n == Len(buf)
            pad == (8 - (n % 8)) % 8
        IN  /\ Len(w) = 8 + n + pad
            /\ Len(w) % 8 = 0
            /\ w[1] = n % 256 /\ w[2] = (n \div 256) % 256 /\ w[3] = (n \div 65536) % 256
            /\ \A i \in 4..8 : w[i] = 0
            /\ SubSeq(w, 9, 8 + n) = buf
            /\ \A i \in (9 + n)..Len(w) : w[i] = 0
            /\ (n = 0 => w = <<0, 0, 0, 0, 0, 0, 0, 0>>)
            /\ (n = 2 => pad = 6)
            /\ (n = 8 => pad = 0)

C1_Witness ==
    /\ res.fn = "serialise_just"
    /\ buf = <<97, Slash>>
    /\ res.w = <<2, 0, 0, 0, 0, 0, 0, 0, 97, Slash, 0, 0, 0, 0, 0, 0>>

\* The components of a byte string as the claim describes them: the maximal
\* runs of bytes other than '/', read off the positions of the string.
RunStarts(b) ==
    {i \in 1..Len(b) : b[i] # Slash /\ (i = 1 \/ b[i - 1] = Slash)}
RunAt(b, i) ==
    SubSeq(b, i, CHOOSE j \in i..Len(b) :
                     /\ \A k \in i..j : b[k] # Slash
                     /\ (j = Len(b) \/ b[j + 1] = Slash))
KeptStarts(b) == {i \in RunStarts(b) : RunAt(b, i) # <<Dot>>}
NthStart(b, n) ==
    CHOOSE i \in KeptStarts(b) : Cardinality({j \in KeptStarts(b) : j < i}) = n - 1
KeptRuns(b) == [n \in 1..Cardinality(KeptStarts(b)) |-> RunAt(b, NthStart(b, n))]

B_foo == <<102, 111, 111>>
B_bar == <<98, 97, 114>>

\* C7: FileName::try_from splits on '/', drops every component that is
\* empty or ".", keeps the others in order, and returns "empty file name"
\* exactly when none remains; a constructed path has at least one component
\* and none is "" or "." ("./foo/" gives [foo], "foo//bar" gives [foo, bar],
\* "foo/" gives [foo]).
C7_TryFrom ==
    res.fn = "try_from" =>
        /\ res.r.ok = (KeptStarts(buf) # {})
        /\ (~res.r.ok => res.r.err = "empty file name")
        /\ res.r.ok =>
              /\ res.r.name = KeptRuns(buf)
              /\ Len(res.r.name) >= 1
              /\ \A i \in 1..Len(res.r.name) :
                    res.r.name[i] # <<>> /\ res.r.name[i] # <<Dot>>
        /\ try_from(<<Dot, Slash>> \o B_foo \o <<Slash>>) = [ok |-> TRUE, name |-> <<B_foo>>]
        /\ try_from(B_foo \o <<Slash, Slash>> \o B_bar)
              = [ok |-> TRUE, name |-> <<B_foo, B_bar>>]
        /\ try_from(B_foo \o <<Slash>>) = [ok |-> TRUE, name |-> <<B_foo>>]

C7_Witness ==
    /\ res.fn = "try_from"
    /\ buf = <<Dot, Slash, 97, Slash, Slash, Dot, Dot, Slash>>
    /\ res.r = [ok |-> TRUE, name |-> <<<<97>>, <<Dot, Dot>>>>]

(***************************************************************************)
(* Properties of the decoder and the serialiser, under Spec.               *)
(***************************************************************************)
LastMember == archive[Len(archive)]
Stepped == last.outcome # "none"
Placed == last.outcome \in {"inserted", "err_insert"}

\* the object a path leads to, descending through directories only
RECURSIVE Lookup(_, _)
Lookup(m, path) ==
    IF path = <<>> \/ path[1] \notin Keys(m) THEN [found |-> FALSE]
    ELSE LET o == Get(m, path[1])
         IN  IF Len(path) = 1 THEN [found |-> TRUE, obj |-> o]
             ELSE IF o.tag = "Directory" THEN Lookup(o.entries, Tail(path))
             ELSE [found |-> FALSE]

RECURSIVE Objects(_)
Objects(m) ==
    UNION { {m[i][2]} \cup (IF m[i][2].tag = "Directory"
                            THEN Objects(m[i][2].entries) ELSE {})
            : i \in 1..Len(m) }
Directories(m) == {m} \cup {o.entries : o \in {x \in Objects(m) : x.tag = "Directory"}}

Bytes(ws) == Flatten(ws)

RECURSIVE AscendingKeys(_)
AscendingKeys(S) ==
    IF S = {} THEN <<>>
    ELSE LET k == CHOOSE x \in S : \A y \in S \ {x} : LexLess(x, y)
         IN  <<k>> \o AscendingKeys(S \ {k})

RECURSIVE EntriesInOrder(_, _)
EntriesInOrder(m, ks) ==
    IF ks = <<>> THEN <<>>
    ELSE Bytes(str(B_entry) \o str(B_open) \o str(B_name) \o str(ks[1]) \o str(B_node)
                 \o serialise_wrapped(Get(m, ks[1])) \o str(B_close))
           \o EntriesInOrder(m, Tail(ks))

\* the path a member is inserted at when it is the only member
InsertPathOf(m) ==
    LET s == loop_body(DirectoryDefault, m, strip_root)
    IN  IF s.outcome = "inserted" THEN s.ipath ELSE <<>>

FlatArchive ==
    /\ \A i \in 1..Len(archive) : Len(InsertPathOf(archive[i])) = 1
    /\ \A i, j \in 1..Len(archive) :
          i # j => InsertPathOf(archive[i]) # InsertPathOf(archive[j])

Permuted(p) == [i \in 1..Len(archive) |-> archive[p[i]]]

\* C2: serialise_one emits the entries of every directory in ascending
\* raw-byte order of the entry name, whatever the insertion order: archives
\* inserting the same (name, object) pairs in different orders serialise to
\* byte-identical NAR output.
C2_SortedEntries ==
    /\ pc = "decoded" =>
          \A d \in Directories(tree) :
              Bytes(serialise_one(Directory(d)))
                = Bytes(type_(B_directory)) \o EntriesInOrder(d, AscendingKeys(Keys(d)))
    /\ (pc = "serialised" /\ FlatArchive) =>
          \A p \in Permutations(1..Len(archive)) :
              LET t == tar_to_fsobject(Permuted(p), strip_root)
              IN  t.r = "Ok" /\ Bytes(serialise_toplevel(t.fso)) = out

C2_Witness ==
    /\ pc = "serialised"
    /\ archive = <<M_f, M_dire, M_f2>>
    /\ FlatArchive
    /\ [i \in 1..Len(tree) |-> tree[i][1]] = <<P_dire, <<102>>, <<102, 50>>>>

\* C3: for an Executable File serialise_one emits, between str("regular")
\* and str("contents"), str("executable") followed by str(""); for a
\* NotExecutable file it emits neither.
C3_ExecutableMarker ==
    \A f \in {o \in Objects(tree) : o.tag = "File"} :
        Bytes(serialise_one(f))
          = Bytes(str(B_type) \o str(B_regular)
                    \o (IF f.exec = "IsExecutable"
                        THEN str(B_executable) \o str(<<>>) ELSE <<>>)
                    \o str(B_contents) \o str(f.content))

\* C4: the target bytes emitted for a symlink member are exactly the
\* link-target bytes of the tar header, with no normalization.
C4_SymlinkVerbatim ==
    (Stepped /\ LastMember.hdr = "ok" /\ LastMember.etype = "symlink"
        /\ LastMember.link.some /\ last.outcome = "inserted") =>
              Bytes(serialise_one(last.obj))
                = Bytes(str(B_type) \o str(B_symlink) \o str(B_target)
                          \o str(LastMember.link.bytes))

IsPrefix(a, b) == Len(a) < Len(b) /\ SubSeq(b, 1, Len(a)) = a

\* C5: an archive listing a directory entry d after a child that implicitly
\* created d decodes to the same tree as the archive listing d first: d still
\* contains the child.
C5_LateDirectoryEntry ==
    (/\ pc = "decoded" /\ Len(archive) = 2
     /\ archive[2].etype = "dir"
     /\ InsertPathOf(archive[2]) # <<>>
     /\ IsPrefix(InsertPathOf(archive[2]), InsertPathOf(archive[1]))) =>
        /\ Directory(tree) = tar_to_fsobject(<<archive[2], archive[1]>>, strip_root).fso
        /\ Lookup(tree, InsertPathOf(archive[1])).found

NonDirPrefix(m, path) ==
    \E k \in 1..(Len(path) - 1) :
        LET l == Lookup(m, SubSeq(path, 1, k))
        IN  l.found /\ l.obj.tag # "Directory"

\* C6: insert with a path of length >= 2 finds or creates a Directory at
\* every intermediate component and places obj at the last one; if an
\* intermediate component exists as a File or Symlink it returns the error
\* "attempt to insert into a non directory" instead of placing obj.
C6_InsertIntermediate ==
    (Placed /\ Len(last.ipath) >= 2) =>
        LET path == last.ipath
            pre == last.tree
        IN  IF NonDirPrefix(pre, path) THEN
                /\ last.outcome = "err_insert"
                /\ last.err = InsertError
                /\ pc = "failed"
                /\ ~Lookup(tree, path).found
            ELSE
                /\ last.outcome = "inserted"
                /\ Lookup(tree, path) = [found |-> TRUE, obj |-> last.obj]
                /\ \A k \in 1..(Len(path) - 1) :
                      LET pfx == SubSeq(path, 1, k)
                          was == Lookup(pre, pfx)
                          now == Lookup(tree, pfx)
                      IN  /\ now.found /\ now.obj.tag = "Directory"
                          /\ Keys(now.obj.entries)
                               = {path[k + 1]} \cup
                                 (IF was.found THEN Keys(was.obj.entries) ELSE {})
                          /\ was.found =>
                                \A key \in Keys(was.obj.entries) \ {path[k + 1]} :
                                    Get(now.obj.entries, key) = Get(was.obj.entries, key)

C6_Witness ==
    /\ last.outcome = "err_insert"
    /\ last.err = InsertError
    /\ Len(last.ipath) = 2
    /\ Lookup(last.tree, <<last.ipath[1]>>).found

(***************************************************************************)
(* normalize of the path property: collapse "//", strip trailing "/",      *)
(* drop "./" components; a rewriting of the byte string.                   *)
(***************************************************************************)
RECURSIVE DropDotSlash(_, _)
DropDotSlash(b, atStart) ==
    IF b = <<>> THEN <<>>
    ELSE IF atStart /\ Len(b) >= 2 /\ b[1] = Dot /\ b[2] = Slash
         THEN DropDotSlash(SubSeq(b, 3, Len(b)), TRUE)
    ELSE <<b[1]>> \o DropDotSlash(Tail(b), b[1] = Slash)

RECURSIVE CollapseSlashes(_)
CollapseSlashes(b) ==
    IF Len(b) < 2 THEN b
    ELSE IF b[1] = Slash /\ b[2] = Slash THEN CollapseSlashes(Tail(b))
    ELSE <<b[1]>> \o CollapseSlashes(Tail(b))

RECURSIVE StripTrailing(_)
StripTrailing(b) ==
    IF b # <<>> /\ b[Len(b)] = Slash THEN StripTrailing(SubSeq(b, 1, Len(b) - 1)) ELSE b

Normalize(b) == StripTrailing(CollapseSlashes(DropDotSlash(b, TRUE)))

RawPaths == UNION {[1..n -> {Slash, Dot, 97, 98}] : n \in 0..MaxRawLen}
NormalFormOf == [q \in RawPaths |-> Normalize(q)]
NormalForms == {NormalFormOf[q] : q \in RawPaths}
WithNormalForm == [n \in NormalForms |-> {q \in RawPaths : NormalFormOf[q] = n}]
SameNormalForm(b) ==
    LET n == Normalize(b) IN IF n \in NormalForms THEN WithNormalForm[n] ELSE {}

\* C8: for path byte strings p and q with the same normal form, inserting
\* the same file at the path parsed from p and at the path parsed from q
\* into equal directories yields equal trees.
C8_NormalizedPaths ==
    (Stepped /\ pc \in {"decoding", "failed"}
        /\ LastMember.hdr = "ok" /\ LastMember.etype = "file") =>
        \A q \in SameNormalForm(LastMember.path) :
            LET s == loop_body(last.tree, [LastMember EXCEPT !.path = q], strip_root)
            IN  s.outcome = last.outcome /\ s.tree = tree

C8_Witness ==
    /\ last.outcome = "inserted"
    /\ pc = "decoding"
    /\ strip_root = "DontStripRoot"
    /\ LastMember.etype = "file"
    /\ LastMember.path = <<Dot, Slash, 97, Slash, 98>>
    /\ {<<97, Slash, 98>>, <<97, Slash, 98, Slash>>, <<97, Slash, Slash, 98>>}
          \subseteq SameNormalForm(LastMember.path)
    /\ Lookup(tree, <<<<97>>, <<98>>>>).found

Built == last.outcome \in {"skip_path", "skip_strip", "inserted", "err_insert", "panic"}

\* C9: with Strip every member whose normalized path has n >= 2 components
\* is inserted at its last n-1 components and every member with exactly one
\* component is skipped without error and without changing the tree; with
\* DontStrip every member is inserted at its full normalized path.  The
\* archive pkg-1.0/README, pkg-1.0/src/main.c, pkg-1.0/ gives README and src
\* (holding main.c) under Strip and the single entry pkg-1.0 under DontStrip.
C9_StripRoot ==
    /\ (Built /\ try_from(LastMember.path).ok) =>
          LET name == try_from(LastMember.path).name
              n == Len(name)
          IN  IF strip_root = "StripRoot" /\ n = 1 THEN
                  last.outcome = "skip_strip" /\ tree = last.tree /\ pc # "failed"
              ELSE
                  /\ Placed
                  /\ last.ipath = IF strip_root = "StripRoot"
                                  THEN SubSeq(name, 2, n) ELSE name
                  /\ last.outcome = "inserted" =>
                        Lookup(tree, last.ipath) = [found |-> TRUE, obj |-> last.obj]
    /\ (archive = <<M_readme, M_main_c, M_pkgdir>> /\ pc = "decoded") =>
          IF strip_root = "StripRoot" THEN
              tree = << <<P_README, File("NotExecutable", <<104, 105>>)>>,
                        <<P_src, Directory(<< <<P_main_c, File("NotExecutable", <<>>)>> >>)>> >>
          ELSE Len(tree) = 1 /\ Keys(tree) = {P_pkg}

C9_Witness ==
    /\ archive = <<M_readme, M_main_c, M_pkgdir>>
    /\ pc = "decoded"
    /\ strip_root = "StripRoot"
    /\ last.outcome = "skip_strip"
    /\ Keys(tree) = {P_README, P_src}

KnownType(m) == m.etype \in {"dir", "file", "symlink"}
DroppedSilently == Stepped /\ pc # "failed" /\ last.outcome # "inserted"

DecodeFailure ==
    LET m == LastMember
    IN  \/ m.hdr = "err"
        \/ m.etype = "file" /\ (~m.read_ok \/ ~m.mode_ok)
        \/ m.etype = "symlink" /\ ~m.link.some
        \/ m.hdr = "ok" /\ KnownType(m) /\ NonDirPrefix(last.tree, InsertPathOf(m))

\* C11: tar_to_nar decodes the whole archive before it serialises anything:
\* if decoding fails on any member (I/O error, malformed header, missing link
\* target, insert beneath a non-directory) tar_to_nar returns an error, no
\* partially built tree is returned and zero bytes have reached the sink.
C11_DecodeBeforeSerialise ==
    /\ (Stepped /\ DecodeFailure) => pc = "failed"
    /\ pc = "failed" =>
          /\ ret = [r |-> "Err", err |-> last.err]
          /\ tar_to_fsobject(archive, strip_root) = [r |-> "Err", err |-> last.err]
          /\ out = <<>> /\ hasher = <<>>
    /\ (out # <<>> \/ hasher # <<>>) =>
          /\ pc \in {"serialised", "hashed"}
          /\ tar_to_fsobject(archive, strip_root) = [r |-> "Ok", fso |-> Directory(tree)]

C11_Witness ==
    /\ pc = "failed"
    /\ last.outcome = "err_insert"
    /\ Len(archive) = 3
    /\ Len(tree) = 2
    /\ ret.r = "Err"
    /\ out = <<>>

\* the paths present in a directory, at every depth
RECURSIVE Paths(_)
Paths(m) ==
    UNION { {<<m[i][1]>>} \cup
            (IF m[i][2].tag = "Directory"
             THEN {<<m[i][1]>> \o p : p \in Paths(m[i][2].entries)} ELSE {})
            : i \in 1..Len(m) }

\* C12: during tar decoding the tree only grows: the root starts empty, a
\* path present in the tree after some member is still present after every
\* later member, and serialisation afterwards does not modify the tree.
C12_TreeOnlyGrows ==
    /\ tree = <<>>
    /\ [][/\ \A p \in Paths(tree) : Lookup(tree', p).found
          /\ pc \in {"decoded", "serialised", "hashed"} => tree' = tree]_vars

\* C13: in every tree tar_to_fsobject returns, for any sequence of members
\* and either StripRoot option, no directory at any depth has an entry whose
\* key is empty or equals ".".
C13_NoEmptyOrDotKey ==
    pc # "failed" =>
        \A d \in Directories(tree) :
            \A i \in 1..Len(d) : d[i][1] # <<>> /\ d[i][1] # <<Dot>>

C13_Witness ==
    /\ pc = "decoded"
    /\ strip_root = "DontStripRoot"
    /\ Len(archive) = 3
    /\ archive[1].path = <<Dot, Slash>>
    /\ archive[2].path = <<Dot, Slash, 97, Slash, 98>>
    /\ archive[3] = M_pkgdir
    /\ Paths(tree) = {<<<<97>>>>, <<<<97>>, <<98>>>>, <<P_pkg>>}

\* the bytes of str("nix-archive-1"), str("(") and str(")")
MagicFrame ==
    <<13, 0, 0, 0, 0, 0, 0, 0>> \o B_magic \o <<0, 0, 0>>
OpenFrame == <<1, 0, 0, 0, 0, 0, 0, 0, 40, 0, 0, 0, 0, 0, 0, 0>>
CloseFrame == <<1, 0, 0, 0, 0, 0, 0, 0, 41, 0, 0, 0, 0, 0, 0, 0>>

\* C14: for every tree serialise_toplevel writes str("nix-archive-1") first,
\* then str("("), then the body of the root object, then str(")") last: the
\* first string of every NAR stream is "nix-archive-1" and the root object
\* is wrapped in one pair of parentheses.
C14_ToplevelFrame ==
    /\ pc = "serialised" =>
          /\ out = MagicFrame \o OpenFrame
                     \o Bytes(serialise_one(Directory(tree))) \o CloseFrame
          /\ SubSeq(out, 1, 24) = MagicFrame
    /\ pc = "hashed" =>
          \A o \in Objects(tree) :
              Bytes(serialise_toplevel(o))
                = MagicFrame \o OpenFrame \o Bytes(serialise_one(o)) \o CloseFrame

C14_Witness ==
    /\ pc = "serialised"
    /\ archive = <<M_dire, M_f, M_f2>>
    /\ Len(out) = 648
    /\ SubSeq(out, 1, 40) = MagicFrame \o OpenFrame
    /\ SubSeq(out, 633, 648) = CloseFrame

\* the bytes of one entry of a directory, and of the entries from the i-th on
EntryFrame(key, child) ==
    Bytes(str(B_entry)) \o OpenFrame \o Bytes(str(B_name)) \o Bytes(str(key))
        \o Bytes(str(B_node))
        \o OpenFrame \o Bytes(serialise_one(child)) \o CloseFrame
        \o CloseFrame
RECURSIVE EntryFrames(_, _)
EntryFrames(d, i) ==
    IF i > Len(d) THEN <<>> ELSE EntryFrame(d[i][1], d[i][2]) \o EntryFrames(d, i + 1)

TypeDirectoryFrame ==
    <<4, 0, 0, 0, 0, 0, 0, 0>> \o B_type \o <<0, 0, 0, 0>>
        \o <<9, 0, 0, 0, 0, 0, 0, 0>> \o B_directory \o <<0, 0, 0, 0, 0, 0, 0>>

\* C15: for a Directory serialise_one emits str("type") str("directory") and
\* then, for each entry, exactly str("entry") str("(") str("name") str(key)
\* str("node") wrapped(child) str(")"), wrapped(child) being str("("), the
\* child's own body, str(")"), at every depth; an empty directory emits only
\* the two type strings.
C15_DirectoryFrame ==
    /\ pc = "decoded" =>
          \A d \in Directories(tree) :
              Bytes(serialise_one(Directory(d)))
                = TypeDirectoryFrame \o EntryFrames(d, 1)
    /\ Bytes(serialise_one(Directory(DirectoryDefault))) = TypeDirectoryFrame

C15_Witness ==
    /\ pc = "decoded"
    /\ strip_root = "DontStripRoot"
    /\ archive = <<M_readme, M_main_c, M_dire>>
    /\ Lookup(tree, <<P_pkg, P_src, P_main_c>>).found
    /\ Lookup(tree, <<P_dire>>) = [found |-> TRUE, obj |-> Directory(<<>>)]

SingleFile == Len(archive) = 1 /\ archive[1].hdr = "ok" /\ archive[1].etype = "file"
FileOf(m) ==
    File(IF BitAnd(m.mode, ExecBits) # 0 THEN "IsExecutable" ELSE "NotExecutable",
         m.content)

\* C17 as stated: whenever tar_to_fsobject succeeds its result is a
\* Directory, for every archive including the empty one and an archive
\* holding a single file: a single-file archive yields a root directory
\* containing that file, never a bare File or Symlink.
C17_SingleFileInRoot ==
    pc = "decoded" =>
        LET t == tar_to_fsobject(archive, strip_root)
        IN  /\ t.r = "Ok" /\ t.fso.tag = "Directory"
            /\ SingleFile => FileOf(archive[1]) \in Objects(t.fso.entries)

\* C17 amended: whenever tar_to_fsobject succeeds its result is a Directory,
\* for every archive including the empty one and an archive holding a single
\* file: a single-file archive yields a root directory containing that file
\* at its insert path and nothing else, or an empty root directory when the
\* file is skipped (its path normalizes to empty, or StripRoot is set and its
\* path has one component); never a bare File or Symlink.
C17_AlwaysDirectory ==
    pc = "decoded" =>
        LET t == tar_to_fsobject(archive, strip_root)
        IN  /\ t.r = "Ok" /\ t.fso.tag = "Directory"
            /\ t.fso.entries = tree
            /\ archive = <<>> => t.fso = Directory(<<>>)
            /\ SingleFile =>
                  LET name == try_from(archive[1].path)
                      n == IF name.ok THEN Len(name.name) ELSE 0
                      at == IF strip_root = "StripRoot"
                            THEN SubSeq(name.name, 2, n) ELSE name.name
                  IN  IF n = 0 \/ (strip_root = "StripRoot" /\ n = 1)
                      THEN t.fso = Directory(<<>>)
                      ELSE /\ Lookup(t.fso.entries, at)
                                = [found |-> TRUE, obj |-> FileOf(archive[1])]
                           /\ Paths(t.fso.entries)
                                = {SubSeq(at, 1, k) : k \in 1..Len(at)}

C17_Witness ==
    /\ pc = "decoded"
    /\ archive = <<M_f>>
    /\ strip_root = "DontStripRoot"
    /\ tree = << <<<<102>>, File("NotExecutable", C_aaa)>> >>

\* C18: every write to a NarHasher succeeds and reports the whole buffer
\* consumed, and flush always succeeds; so serialising any tree into a
\* NarHasher never returns an error, and every byte the serialiser produced
\* has been fed to the hash state when digest is called.
C18_HasherNeverFails ==
    pc = "hashed" =>
        LET ws == serialise_toplevel(Directory(tree))
        IN  /\ ret = [r |-> "Ok"]
            /\ hasher = Bytes(ws)
            /\ digest(hasher) = [prefix |-> "sha256-", of |-> Bytes(ws)]
            /\ NarHasher_flush(hasher) = [r |-> "Ok", state |-> hasher]
            /\ \A i \in 1..Len(ws) :
                  LET w == NarHasher_write(NarHasher_new, ws[i])
                  IN  w.r = "Ok" /\ w.n = Len(ws[i]) /\ w.state = ws[i]

C18_Witness ==
    /\ pc = "hashed"
    /\ archive = <<M_dire, M_f, M_f2>>
    /\ ret = [r |-> "Ok"]
    /\ Len(hasher) = 648
    /\ SubSeq(hasher, 1, 24) = MagicFrame

\* C19: when Directory::insert returns the error "attempt to insert into a
\* non directory", the directory it was called on is unchanged at every
\* depth: no intermediate directory has been created and no entry has been
\* added, replaced or removed by the failed call.
C19_FailedInsertFrame ==
    last.outcome = "err_insert" =>
        /\ last.err = InsertError
        /\ tree = last.tree
        /\ Paths(tree) = Paths(last.tree)
        /\ insert(last.tree, last.ipath, last.obj) = [r |-> "Err", dir |-> last.tree]

C19_Witness ==
    /\ last.outcome = "err_insert"
    /\ strip_root = "DontStripRoot"
    /\ last.ipath = <<<<97>>, <<98>>, <<108>>>>
    /\ Lookup(last.tree, <<<<97>>, <<98>>>>) = [found |-> TRUE, obj |-> File("IsExecutable", <<1>>)]
    /\ Len(tree) = 2

\* C20: for any sequence of members and either StripRoot option,
\* tar_to_fsobject never reaches the fatal paths of Directory::insert: insert
\* is never called, at the top level or in its recursion, with a path of zero
\* components, so the panic is unreachable, and the assertion that the head
\* component is not empty never fails.
C20_NoPanic ==
    Stepped =>
        /\ last.outcome # "panic"
        /\ Placed =>
              /\ insert(last.tree, last.ipath, last.obj).r # "panic"
              /\ Len(last.ipath) >= 1
              /\ \A i \in 1..Len(last.ipath) : last.ipath[i] # <<>>

C20_Witness ==
    /\ strip_root = "StripRoot"
    /\ Len(archive) = 2
    /\ archive[1] = M_f /\ archive[2] = M_readme
    /\ last.outcome = "inserted"
    /\ last.ipath = <<P_README>>
    /\ Len(tree) = 1

(***************************************************************************)
(* Properties of Directory::insert called directly, under SpecInsert.      *)
(***************************************************************************)
Unrelated(p, q) == p # q /\ ~IsPrefix(p, q) /\ ~IsPrefix(q, p)

\* two inserts in a row on the directory d, the second only if the first
\* returned Ok
InsertBoth(d, p1, o1, p2, o2) ==
    LET x == insert(d, p1, o1)
    IN  IF x.r # "Ok" THEN [r |-> x.r]
        ELSE LET y == insert(x.dir, p2, o2)
             IN  IF y.r # "Ok" THEN [r |-> y.r] ELSE [r |-> "Ok", dir |-> y.dir]

\* C21: inserts at unrelated paths commute: for two paths where neither is
\* equal to nor a prefix of the other, inserting obj1 at the first and obj2
\* at the second into the same directory gives the same outcome in either
\* order: both orders succeed with equal trees or both end with an insert
\* error.
C21_UnrelatedInsertsCommute ==
    Len(calls) >= 2 =>
        LET c1 == calls[Len(calls) - 1]
            c2 == calls[Len(calls)]
            made == IF c1.r # "Ok" THEN [r |-> c1.r]
                    ELSE IF c2.r # "Ok" THEN [r |-> c2.r]
                    ELSE [r |-> "Ok", dir |-> dir]
            other == InsertBoth(c1.pre, c2.path, c2.obj, c1.path, c1.obj)
        IN  Unrelated(c1.path, c2.path) =>
                \/ made.r = "Ok" /\ other.r = "Ok" /\ made.dir = other.dir
                \/ made.r = "Err" /\ other.r = "Err"

C21_Witness ==
    /\ Len(calls) = 3
    /\ calls[1].path = <<<<98>>>> /\ calls[1].obj.tag = "File"
    /\ calls[2].path = <<<<97>>, <<98>>, <<97>>>> /\ calls[2].r = "Ok"
    /\ calls[3].path = <<<<97>>, <<97>>>> /\ calls[3].r = "Ok"
    /\ Paths(dir) = { <<<<97>>>>, <<<<97>>, <<97>>>>, <<<<97>>, <<98>>>>,
                      <<<<97>>, <<98>>, <<97>>>>, <<<<98>>>> }

(***************************************************************************)
(* Properties of the serialiser on a sink that can fail, under SpecSink.   *)
(***************************************************************************)
WriteFailed == sink.at # 0 /\ sink.calls >= sink.at

\* C22: if a write to the sink fails at any point during serialise_toplevel
\* the serialiser stops at once: it returns that error to the caller and
\* performs no further write to the sink, at any nesting depth of the tree;
\* the bytes accepted before the failure are a prefix of the NAR the same
\* tree produces on a sink that never fails.
C22_WriteFailureStops ==
    pc = "sunk" =>
        LET full == Bytes(serialise_toplevel(Directory(tree)))
        IN  IF WriteFailed THEN
                /\ ret = [r |-> "Err", err |-> IoFault]
                /\ sink.calls = sink.at
                /\ IsPrefix(sink.bytes, full)
            ELSE
                /\ ret = [r |-> "Ok"]
                /\ sink.bytes = full

\* the write after the name of pkg-1.0/src/main.c fails, three directories
\* deep
C22_Witness ==
    /\ pc = "sunk"
    /\ ret = [r |-> "Err", err |-> IoFault]
    /\ strip_root = "DontStripRoot"
    /\ archive = <<M_main_c>>
    /\ sink.chunk = 64
    /\ sink.calls = sink.at
    /\ Len(sink.bytes) > 16
    /\ SubSeq(sink.bytes, Len(sink.bytes) - 15, Len(sink.bytes))
          = <<6, 0, 0, 0, 0, 0, 0, 0>> \o P_main_c \o <<0, 0>>

====
